---- MODULE Spec2Model ----
(***************************************************************************)
(* Model of the pose-estimation pipeline of duckietown-visual-servo:       *)
(*   src/visual_servo/estimation.py   class PoseEstimator                  *)
(*   src/visual_servo_control.py      calc_circle_pattern, get_pose        *)
(*                                                                         *)
(* Number representation.  The code computes in IEEE doubles; the model    *)
(* computes in decimal fixed point:                                        *)
(*   lengths (pattern spacing, translations, stand-off distance, output    *)
(*            position)                    in units of 1/LenScale          *)
(*   angles in radians (rotation vector)   in units of 1/AngScale          *)
(*   cos / sin values                      in units of 1/TrigScale         *)
(*   angles in degrees (output heading)    in units of 1/AngScale          *)
(*   intrinsic matrix entries              in units of 1/10^6              *)
(*   distortion coefficients               in units of 1/10^9              *)
(* The OpenCV calls (findCirclesGrid, solvePnP) are the environment: their *)
(* outputs for a frame are inputs of the model.                            *)
(***************************************************************************)
EXTENDS Integers, Sequences, FiniteSets, TLC

VARIABLES
    ctor,         \* how the constructor call ended
    est,          \* the PoseEstimator object
    args,         \* the constructor's arguments other than camera_mode
    profile,      \* the camera_mode last passed to initialize_camera_matrix
    reconf,       \* whether initialize_camera_matrix was called after construction
    frame,        \* what OpenCV yields for the current image (obs)
    ret,          \* outcome of PoseEstimator.get_pose on the current frame
    fret          \* outcome of the free function get_pose on the current frame

vars == <<ctor, est, args, profile, reconf, frame, ret, fret>>

\* Python's None and an empty array, as values of a matrix or of a pose
None == <<>>

LenScale == 10^5
AngScale == 10^3
TrigScale == 10^3

------------------------------------------------------------------------------
(* Bounds of the model *)

MaxRows == 3
MaxCols == 4
MaxMode == 5

------------------------------------------------------------------------------
(* Fixed-point arithmetic *)

Abs(n) == IF n < 0 THEN -n ELSE n

\* a / b rounded to the nearest integer, halves away from zero (b > 0)
RoundDiv(a, b) ==
    IF a >= 0 THEN (2 * a + b) \div (2 * b)
              ELSE -((2 * (-a) + b) \div (2 * b))

\* Taylor series of cos and sin, evaluated with 10^5 internal resolution.
\* t is in milliradians, |t| <= 2000; term is the series term of order n - 2.
SeriesScale == 10^5

RECURSIVE Series(_, _, _, _)
Series(t, n, term, acc) ==
    IF n > 16 \/ term = 0 THEN acc
    ELSE LET next == -RoundDiv(RoundDiv(term * t, AngScale) * t,
                               AngScale * n * (n - 1))
         IN  Series(t, n + 2, next, acc + term)

\* np.cos(theta), theta in 1/AngScale rad, value in 1/TrigScale
np_cos(theta) ==
    RoundDiv(Series(Abs(theta), 2, SeriesScale, 0), SeriesScale \div TrigScale)

\* np.sin(theta), theta in 1/AngScale rad, value in 1/TrigScale
np_sin(theta) ==
    LET a == Abs(theta)
        s == RoundDiv(Series(a, 3, a * (SeriesScale \div AngScale), 0),
                      SeriesScale \div TrigScale)
    IN  IF theta < 0 THEN -s ELSE s

\* np.rad2deg(theta) = theta * 180 / pi; 180 / pi = 57.29578 to 7 digits.
\* theta in 1/AngScale rad, value in 1/AngScale degrees.
np_rad2deg(theta) == RoundDiv(theta * 57296, 1000)

\* The product of a length and a cos/sin value, as a length
MulTrig(len, c) == RoundDiv(len * c, TrigScale)

------------------------------------------------------------------------------
(* Pattern geometry *)

\* np.zeros([n, 3])
np_zeros3(n) == [k \in 1..n |-> <<0, 0, 0>>]

\* One pass of the loop body: the assignments to row i + j * width of the
\* array (the sequence position is the flat index plus one).  Column 2 of
\* the row is left as np.zeros made it.
PatternAssignAlt(arr, i, j, dist, height, width) ==
    [arr EXCEPT ![i * height + j + 1] =
        <<dist * i - (dist * (width - 1)) \div 2,
          dist * j - (dist * (height - 1)) \div 2,
          @[3]>>]

PatternAssignOff(arr, i, j, dist, height, width) ==
    [arr EXCEPT ![i + j * width + 1] =
        <<dist * i - (dist * width) \div 2,
          dist * j - (dist * height) \div 2,
          @[3]>>]

PatternAssign(arr, i, j, dist, height, width) ==
    [arr EXCEPT ![i + j * width + 1] =
        <<dist * i - (dist * (width - 1)) \div 2,
          dist * j - (dist * (height - 1)) \div 2,
          @[3]>>]

\* for i in range(width): for j in range(height): <body>
RECURSIVE PatternLoop(_, _, _, _, _, _)
PatternLoop(arr, i, j, dist, height, width) ==
    IF i >= width THEN arr
    ELSE IF j >= height THEN PatternLoop(arr, i + 1, 0, dist, height, width)
    ELSE PatternLoop(PatternAssign(arr, i, j, dist, height, width),
                     i, j + 1, dist, height, width)

\* PoseEstimator._calc_circle_pattern
_calc_circle_pattern(self) ==
    PatternLoop(np_zeros3(self.height * self.width), 0, 0,
                self.circle_pattern_dist, self.height, self.width)

\* circlepattern_dist = 0.0125 in the free function
circlepattern_dist == 1250

\* calc_circle_pattern(height, width) of visual_servo_control.py
calc_circle_pattern(height, width) ==
    PatternLoop(np_zeros3(height * width), 0, 0,
                circlepattern_dist, height, width)

------------------------------------------------------------------------------
(* Calibration profiles *)

\* camera_matrix literal, row-major, in 1/10^6
camera_matrix ==
    <<305571889, 0, 303079714,
      0, 308833886, 231884540,
      0, 0, 1000000>>

\* distortion_coefs literal, in 1/10^9
distortion_coefs == <<-200000000, 30500000, 585993, -669784, 0>>

\* np.array([0., 0., 0., 0., 0.])
zero_distortion == <<0, 0, 0, 0, 0>>

\* cv2.getOptimalNewCameraMatrix(camera_matrix, distortion_coefs,
\* (640, 480), 0): the projection that maps the inscribed rectangle of the
\* undistorted 640 x 480 image onto the viewport, in 1/10^6.  The value is
\* the library's result for these literals (alpha = 0, 9 x 9 sample grid,
\* 5 undistortion iterations).
new_camera_matrix ==
    <<217833602, 0, 289594357,
      0, 264147611, 229459125,
      0, 0, 1000000>>

\* the camera_mode == 4 literals
alt_camera_matrix ==
    <<307737929, 0, 329692368,
      0, 314987773, 244460559,
      0, 0, 1000000>>

alt_distortion_coefs == <<-256588899, 44811605, -5052751, 1308569, 0>>

\* A mis-selection: mode 2 takes the rectified matrix
initialize_camera_matrix_swapped(self, camera_mode) ==
    IF camera_mode = 0 \/ camera_mode = 2 THEN
        [self EXCEPT !.camera_matrix = new_camera_matrix,
                     !.distortion_coefs = zero_distortion]
    ELSE IF camera_mode = 1 \/ camera_mode = 3 THEN
        [self EXCEPT !.camera_matrix = new_camera_matrix,
                     !.distortion_coefs = distortion_coefs]
    ELSE IF camera_mode = 4 THEN
        [self EXCEPT !.camera_matrix = alt_camera_matrix,
                     !.distortion_coefs = alt_distortion_coefs]
    ELSE self

\* PoseEstimator.initialize_camera_matrix: an if / elif chain with no else
initialize_camera_matrix(self, camera_mode) ==
    IF camera_mode = 0 THEN
        [self EXCEPT !.camera_matrix = new_camera_matrix,
                     !.distortion_coefs = zero_distortion]
    ELSE IF camera_mode = 1 THEN
        [self EXCEPT !.camera_matrix = new_camera_matrix,
                     !.distortion_coefs = distortion_coefs]
    ELSE IF camera_mode = 2 THEN
        [self EXCEPT !.camera_matrix = camera_matrix,
                     !.distortion_coefs = zero_distortion]
    ELSE IF camera_mode = 3 THEN
        [self EXCEPT !.camera_matrix = camera_matrix,
                     !.distortion_coefs = distortion_coefs]
    ELSE IF camera_mode = 4 THEN
        [self EXCEPT !.camera_matrix = alt_camera_matrix,
                     !.distortion_coefs = alt_distortion_coefs]
    ELSE self

------------------------------------------------------------------------------
(* Construction *)

\* PoseEstimator.__init__(min_area, min_dist_between_blobs, height, width,
\* circle_pattern_dist, target_distance, camera_mode).  The blob detector it
\* builds only feeds findCirclesGrid, whose output is an input of the model.
\* No statement of the constructor raises: it always returns the object.
PoseEstimator(a) ==
    LET geom == [circle_pattern_dist |-> a.circle_pattern_dist,
                 height |-> a.height,
                 width |-> a.width]
        self == [circle_pattern_dist |-> a.circle_pattern_dist,
                 height |-> a.height,
                 width |-> a.width,
                 circle_pattern |-> _calc_circle_pattern(geom),
                 target_distance |-> a.target_distance,
                 camera_matrix |-> None,
                 distortion_coefs |-> None,
                 counter |-> 0]
    IN  [outcome |-> "returned",
         self |-> initialize_camera_matrix(self, a.camera_mode)]

------------------------------------------------------------------------------
(* Frames: what the OpenCV calls yield for an image *)

\* Solver outputs the model draws from.  rvec[1] is the angle the code reads
\* as theta; tvec[0] and tvec[2] are the translations it reads.
Thetas == {0, 524, -1571}
Lateral == {0, 5 * LenScale}
Depth == {5 * LenScale}

\* cv2.findCirclesGrid reported no grid: centers is None and nothing can be
\* solved.
NotFoundFrame ==
    [detection |-> FALSE, retval |-> FALSE,
     rvec |-> <<0, 0, 0>>, tvec |-> <<0, 0, 0>>]

\* cv2.findCirclesGrid reported the grid; retval, rvec, tvec are what
\* cv2.solvePnP yields for its centers (retval is the solver's success flag).
FoundFrames ==
    { [detection |-> TRUE, retval |-> ok,
       rvec |-> <<30, th, -20>>, tvec |-> <<tx, 7000, tz>>] :
      ok \in BOOLEAN, th \in Thetas, tx \in Lateral, tz \in Depth }

Frames == {NotFoundFrame} \cup FoundFrames

------------------------------------------------------------------------------
(* PoseEstimator.get_pose *)

\* The record a call leaves behind: how it ended, the two components of the
\* returned tuple (the Python container of the second, and its content),
\* whether cv2.solvePnP was invoked, and the estimator object afterwards.
Call(outcome, found, kind, pose, solved, self) ==
    [outcome |-> outcome, found |-> found, kind |-> kind, pose |-> pose,
     solved |-> solved, self |-> self]

\* y_target, x_target of lines 109-110, laid out as np.array([y, 0, x])
target_position_swapped(x_bumper, y_bumper, theta, target_distance) ==
    <<x_bumper + MulTrig(target_distance, np_sin(theta)),
      0,
      y_bumper - MulTrig(target_distance, np_cos(theta))>>

target_position(x_bumper, y_bumper, theta, target_distance) ==
    <<y_bumper - MulTrig(target_distance, np_cos(theta)),
      0,
      x_bumper + MulTrig(target_distance, np_sin(theta))>>

\* Variants of get_pose with a plausible slip each: the solver called before
\* the detection flag is looked at (centers is None then, and indexing it
\* fails), and the frame counter advanced on every call
get_pose_solve_first(self, fr) ==
    IF fr.detection
    THEN IF self.camera_matrix = None
         THEN Call("raised", FALSE, "None", None, TRUE, self)
         ELSE Call("returned", fr.detection, "tuple",
                   <<target_position(fr.tvec[1], fr.tvec[3], fr.rvec[2],
                                     self.target_distance),
                     -np_rad2deg(fr.rvec[2])>>, TRUE, self)
    ELSE Call("raised", FALSE, "None", None, TRUE, self)

get_pose_counting(self, fr) ==
    LET after == [self EXCEPT !.counter = @ + 1]
    IN  IF fr.detection
        THEN IF self.camera_matrix = None
             THEN Call("raised", FALSE, "None", None, TRUE, after)
             ELSE Call("returned", TRUE, "tuple",
                       <<target_position(fr.tvec[1], fr.tvec[3], fr.rvec[2],
                                         self.target_distance),
                         -np_rad2deg(fr.rvec[2])>>, TRUE, after)
        ELSE Call("returned", FALSE, "None", None, FALSE, after)

\* PoseEstimator.get_pose(obs).  Python indices 0, 1, 2 are positions 1, 2, 3.
\* With the grid detected, cv2.solvePnP is called with self.camera_matrix;
\* it rejects an empty camera matrix with cv2.error, which nothing catches.
\* Its success flag is bound to _ and never read.  No attribute of self is
\* assigned.
get_pose(self, fr) ==
    IF fr.detection
    THEN IF self.camera_matrix = None
         THEN Call("raised", FALSE, "None", None, TRUE, self)
         ELSE LET theta == fr.rvec[2]
                  x_bumper == fr.tvec[1]
                  y_bumper == fr.tvec[3]
              IN  Call("returned", fr.detection, "tuple",
                       <<target_position(x_bumper, y_bumper, theta,
                                         self.target_distance),
                         -np_rad2deg(theta)>>, TRUE, self)
    ELSE Call("returned", fr.detection, "None", None, FALSE, self)

------------------------------------------------------------------------------
(* The free function get_pose of visual_servo_control.py *)

Options == 0..4

FreeCall(outcome, option, found, kind, pose, object_points) ==
    [outcome |-> outcome, option |-> option, found |-> found, kind |-> kind,
     pose |-> pose, object_points |-> object_points]

\* A variant that lays the axes out as PoseEstimator.get_pose does
free_get_pose_aligned(fr, option) ==
    IF fr.detection /\ option \in 0..3
    THEN FreeCall("returned", option, fr.detection, "list",
                  <<<<fr.tvec[3], 0, fr.tvec[1]>>, -np_rad2deg(fr.rvec[2])>>,
                  calc_circle_pattern(3, 8))
    ELSE FreeCall("returned", option, fr.detection, "ndarray", None, None)

\* get_pose(obs, option): four branches that differ only in the matrices
\* handed to cv2.solvePnP, each returning (detection, [np.array([y, 0, x]),
\* theta]) with x = tvec[2], y = tvec[0], theta = rad2deg(rvec[1]); any
\* other case returns (detection, np.array([])).
free_get_pose(fr, option) ==
    IF fr.detection /\ option \in 0..3
    THEN LET object_points == calc_circle_pattern(3, 8)
             x == fr.tvec[3]
             y == fr.tvec[1]
             theta == np_rad2deg(fr.rvec[2])
         IN  FreeCall("returned", option, fr.detection, "list",
                      <<<<y, 0, x>>, theta>>, object_points)
    ELSE FreeCall("returned", option, fr.detection, "ndarray", None, None)

------------------------------------------------------------------------------
(* The state machine *)

Spacings == {1250, 2}
Distances == {0, LenScale}

Args ==
    [height : 1..MaxRows, width : 1..MaxCols,
     circle_pattern_dist : Spacings, target_distance : Distances]

\* The constructor's argument list: a, with camera_mode
WithMode(a, camera_mode) ==
    [height |-> a.height, width |-> a.width,
     circle_pattern_dist |-> a.circle_pattern_dist,
     target_distance |-> a.target_distance,
     camera_mode |-> camera_mode]

NoCall == Call("none", FALSE, "None", None, FALSE, None)
NoFreeCall == FreeCall("none", 0, FALSE, "None", None, None)

\* The state once the constructor has run and the first image is at hand
Init ==
    \E a \in Args, camera_mode \in 0..MaxMode :
        /\ args = a
        /\ profile = camera_mode
        /\ reconf = FALSE
        /\ ctor = PoseEstimator(WithMode(a, camera_mode)).outcome
        /\ est = PoseEstimator(WithMode(a, camera_mode)).self
        /\ frame \in Frames
        /\ ret = NoCall
        /\ fret = NoFreeCall

\* The driver obtains the next image; the previous results are consumed
NextFrame ==
    /\ ret.outcome # "raised"
    /\ \E fr \in Frames : frame' = fr
    /\ ret' = NoCall
    /\ fret' = NoFreeCall
    /\ UNCHANGED <<ctor, est, args, profile, reconf>>

\* estimator.get_pose(obs) on the current image
GetPose ==
    /\ ret.outcome = "none"
    /\ LET c == get_pose(est, frame)
       IN  /\ ret' = [c EXCEPT !.self = None]
           /\ est' = c.self
    /\ UNCHANGED <<ctor, args, profile, reconf, frame, fret>>

\* get_pose(obs, option) on the current image
FreeGetPose ==
    /\ ret.outcome # "raised"
    /\ fret.outcome = "none"
    /\ \E option \in Options : fret' = free_get_pose(frame, option)
    /\ UNCHANGED <<ctor, est, args, profile, reconf, frame, ret>>

\* estimator.initialize_camera_matrix(camera_mode), called on the built
\* object: the method is public and reassigns the two calibration attributes
InitializeCameraMatrix ==
    /\ ret.outcome # "raised"
    /\ \E camera_mode \in 0..MaxMode :
          /\ est' = initialize_camera_matrix(est, camera_mode)
          /\ profile' = camera_mode
    /\ reconf' = TRUE
    /\ UNCHANGED <<ctor, args, frame, ret, fret>>

Next == NextFrame \/ GetPose \/ FreeGetPose \/ InitializeCameraMatrix

Spec == Init /\ [][Next]_vars

------------------------------------------------------------------------------
(* Claims *)

\* The estimator a fresh construction with the same arguments yields
Fresh == PoseEstimator(WithMode(args, profile)).self

\* The estimator as construction built it, carrying e's calibration
AsConstructed(e) ==
    [PoseEstimator(WithMode(args, 0)).self EXCEPT
        !.camera_matrix = e.camera_matrix,
        !.distortion_coefs = e.distortion_coefs]

\* A step in which PoseEstimator.get_pose runs
GetPoseStep == ret.outcome = "none" /\ ret'.outcome # "none"

\* The solver outputs the code reads from the current frame
FrameTheta == frame.rvec[2]
FrameX == frame.tvec[1]
FrameY == frame.tvec[3]

\* Sum of column c of an array of points
RECURSIVE SumCol(_, _, _)
SumCol(arr, c, k) ==
    IF k = 0 THEN 0 ELSE arr[k][c] + SumCol(arr, c, k - 1)

Centred(arr) ==
    \A c \in 1..3 : SumCol(arr, c, Len(arr)) = 0

\* C1: constructing with a camera_mode outside 0..4 raises during
\* construction, and no estimator whose camera_matrix and distortion_coefs
\* are unset is ever returned.
C1_InvalidModeRaises ==
    ~reconf =>
        /\ profile \notin 0..4 => ctor = "raised"
        /\ ctor = "returned" =>
             est.camera_matrix # None /\ est.distortion_coefs # None

\* C2: on a frame where the grid is not found, get_pose returns the
\* not-found result (found = false, no pose) without invoking the PnP solver
\* and without raising, whatever the estimator's configuration.
C2_NotFoundReturns ==
    (ret.outcome # "none" /\ ~frame.detection) =>
        /\ ret.outcome = "returned"
        /\ ret.found = FALSE
        /\ ret.kind = "None"
        /\ ret.pose = None
        /\ ret.solved = FALSE

\* C2 witness: a not-found frame processed by an estimator whose camera
\* matrix was never set
C2_Witness ==
    /\ ret.outcome = "returned"
    /\ ~frame.detection
    /\ est.camera_matrix = None

\* C3: when the grid is detected but the PnP solve reports failure, get_pose
\* returns the not-found result: found = false and no pose.
C3_SolveFailureIsNotFound ==
    (ret.outcome = "returned" /\ frame.detection /\ ~frame.retval) =>
        /\ ret.found = FALSE
        /\ ret.pose = None

\* C4: whenever get_pose returns found = true, the position is
\* (y_bumper - D*cos(theta), 0, x_bumper + D*sin(theta)) and the heading is
\* -theta in degrees; the middle coordinate is 0; for theta = 0, D = 1,
\* x_bumper = 0, y_bumper = 5 the result is position (4, 0, 0), heading 0.
C4_TargetPose ==
    (ret.outcome = "returned" /\ ret.found) =>
        LET D == est.target_distance
        IN  /\ ret.pose[1] =
                 <<FrameY - MulTrig(D, np_cos(FrameTheta)),
                   0,
                   FrameX + MulTrig(D, np_sin(FrameTheta))>>
            /\ ret.pose[1][2] = 0
            /\ ret.pose[2] = -np_rad2deg(FrameTheta)
            /\ (FrameTheta = 0 /\ D = LenScale /\ FrameX = 0
                    /\ FrameY = 5 * LenScale) =>
                 ret.pose = << <<4 * LenScale, 0, 0>>, 0 >>

\* C4 witness: the worked example has been computed
C4_Witness ==
    /\ ret.outcome = "returned" /\ ret.found
    /\ FrameTheta = 0 /\ est.target_distance = LenScale
    /\ FrameX = 0 /\ FrameY = 5 * LenScale

\* C5: the pattern has rows*cols points; the point at flat index i + j*cols
\* has x = spacing*i - spacing*(cols-1)/2, y = spacing*j - spacing*(rows-1)/2
\* and z = 0; every flat index is hit by exactly one (i, j) pair.
C5_PatternLayout ==
    LET rows == est.height
        cols == est.width
        spacing == est.circle_pattern_dist
        pts == est.circle_pattern
    IN  /\ Len(pts) = rows * cols
        /\ \A i \in 0..(cols - 1), j \in 0..(rows - 1) :
              /\ 2 * pts[i + j * cols + 1][1] =
                     2 * spacing * i - spacing * (cols - 1)
              /\ 2 * pts[i + j * cols + 1][2] =
                     2 * spacing * j - spacing * (rows - 1)
              /\ pts[i + j * cols + 1][3] = 0
        /\ \A k \in 0..(rows * cols - 1) :
              Cardinality({ p \in (0..(cols - 1)) \X (0..(rows - 1)) :
                            p[1] + p[2] * cols = k }) = 1

\* C5 witness: a pattern with several rows and more columns than rows
C5_Witness ==
    /\ est.height = 3 /\ est.width = MaxCols
    /\ est.circle_pattern_dist = 1250
    /\ Len(est.circle_pattern) = 3 * MaxCols

\* C6: profile 0 and profile 1 carry the rectified matrix, profiles 2 and 3
\* the raw matrix, and the two matrices differ; profiles 0 and 2 carry the
\* all-zero distortion vector, profiles 1 and 3 the nominal one.
C6_Profiles ==
    /\ new_camera_matrix # camera_matrix
    /\ profile \in {0, 1} => est.camera_matrix = new_camera_matrix
    /\ profile \in {2, 3} => est.camera_matrix = camera_matrix
    /\ profile \in {0, 2} =>
          /\ Len(est.distortion_coefs) = 5
          /\ \A k \in 1..5 : est.distortion_coefs[k] = 0
    /\ profile \in {1, 3} =>
          est.distortion_coefs = distortion_coefs

\* C6 witness: an estimator built with the raw matrix and zero distortion
C6_Witness ==
    /\ profile = 2 /\ ~reconf
    /\ est.camera_matrix = camera_matrix
    /\ ret.outcome = "returned"

\* C7: the coordinates of the generated points sum to 0 in x, in y and in z,
\* for the estimator's pattern and for the free function's; for rows = 3,
\* cols = 8, spacing = 0.0125 there are 24 points with centroid (0, 0, 0).
C7_Centred ==
    /\ Centred(est.circle_pattern)
    /\ (fret.outcome = "returned" /\ fret.kind = "list") =>
          /\ Len(fret.object_points) = 24
          /\ Centred(fret.object_points)
          /\ fret.object_points[1] = <<-4375, -1250, 0>>
          /\ fret.object_points[24] = <<4375, 1250, 0>>

\* C7 witness: the free function has generated the 3 x 8 pattern and the
\* estimator holds a pattern of several rows and columns
C7_Witness ==
    /\ fret.outcome = "returned" /\ fret.kind = "list"
    /\ Len(fret.object_points) = 24
    /\ est.height = 2 /\ est.width = 3

\* C8: no get_pose call on an estimator that construction returned ends in
\* a fault; every call returns the not-found result or a found result with
\* a pose.
C8_NoFaultMidStream ==
    (ctor = "returned" /\ ret.outcome # "none") =>
        /\ ret.outcome = "returned"
        /\ \/ ret.found = FALSE /\ ret.pose = None
           \/ ret.found = TRUE /\ Len(ret.pose) = 2

\* C9: a get_pose call leaves every attribute of the estimator as it was:
\* the pattern, dimensions, target distance and counter (still 0) are those
\* construction gave, the calibration is untouched, and with no other method
\* called the estimator equals a freshly constructed one; the call's result
\* is the one the as-constructed estimator gives on the same frame.
C9_Stateless ==
    [][GetPoseStep =>
          /\ est' = est
          /\ est'.counter = 0
          /\ est' = AsConstructed(est)
          /\ ~reconf => est' = Fresh
          /\ ret' = [get_pose(AsConstructed(est), frame) EXCEPT !.self = None]
      ]_vars

\* C9 witness: a call has returned a pose on an estimator still as built
C9_Witness ==
    /\ ret.outcome = "returned" /\ ret.found
    /\ ~reconf
    /\ est = Fresh /\ est.counter = 0

\* C10: on the same detected frame, with the same profile id in 0..3, the
\* free function returns position (t[0], 0, t[2]) and heading +theta in
\* degrees, PoseEstimator.get_pose with target_distance = 0 returns
\* position (t[2], 0, t[0]) and heading -theta in degrees; the two differ
\* whenever t[0] # t[2] or theta # 0.
C10_Divergent ==
    (/\ ret.outcome = "returned" /\ fret.outcome = "returned"
     /\ frame.detection
     /\ fret.option \in 0..3 /\ profile = fret.option
     /\ est.target_distance = 0) =>
        /\ fret.pose = << <<FrameX, 0, FrameY>>, np_rad2deg(FrameTheta) >>
        /\ ret.pose = << <<FrameY, 0, FrameX>>, -np_rad2deg(FrameTheta) >>
        /\ (FrameX # FrameY \/ FrameTheta # 0) => ret.pose # fret.pose

\* C10 witness: both implementations have run on a frame with distinct
\* translations and a non-zero angle
C10_Witness ==
    /\ ret.outcome = "returned" /\ fret.outcome = "returned"
    /\ frame.detection
    /\ fret.option \in 0..3 /\ profile = fret.option
    /\ est.target_distance = 0
    /\ FrameX # FrameY /\ FrameTheta # 0

====
